---- MODULE Spec2Model ----
(***************************************************************************)
(* A model of the select()-based echo server of src/src/main.c.            *)
(*                                                                         *)
(* The server state is the slot table `clients`, the two master fd sets,   *)
(* the two working copies handed to select(), max_fd and the position of   *)
(* the event loop.  The kernel side is the table `sock` of the connections *)
(* open on each fd number: what the peer has had delivered to the server   *)
(* (rcvd), what the server has transmitted to the peer (wire) and how many *)
(* recv() calls on the connection have returned data (nreads).             *)
(*                                                                         *)
(* An fd_set holds the fd numbers 0 .. FD_SETSIZE-1.  The kernel hands out *)
(* fd numbers below the process's descriptor limit (nofile); where that    *)
(* limit is above FD_SETSIZE, accept() can return a number that FD_SET is  *)
(* not defined for.                                                        *)
(*                                                                         *)
(* A byte is identified by the connection it was received on and by its    *)
(* position in that connection's inbound stream.  Byte strings are kept    *)
(* as sequences of runs [c, lo, n]: the n bytes lo .. lo+n-1 of the        *)
(* inbound stream of connection c.  This keeps buffers of 8192 bytes       *)
(* small without changing what memcpy and send do to them.                 *)
(*                                                                         *)
(* Of a write buffer's array the model keeps data[0 .. size-1]; the bytes  *)
(* from size on (never written, or left over from before a reset) are      *)
(* indeterminate and read as Garbage, which belongs to no connection.      *)
(***************************************************************************)
EXTENDS Integers, Sequences, FiniteSets, TLC

\* ------------------------------------------------------------ constants
BUFFER_SIZE == 4096
MAX_PENDING_WRITES == 8192

\* ------------------------------------------------------------ bounds
\* Size of an fd_set and of the slot table (1024 on the reference platform).
FD_SETSIZE == 3
\* Connections the peer side opens during one run.
MaxConns == 2
\* recv() calls returning data, summed over the open connections, after which
\* recv() delivers no more data.
MaxReads == 3

VARIABLES
    clients,            \* Client clients[FD_SETSIZE]
    master_read_set,    \* fd_set master_read_set
    master_write_set,   \* fd_set master_write_set
    read_set,           \* fd_set read_set  (working copy)
    write_set,          \* fd_set write_set (working copy)
    max_fd,             \* int max_fd
    server_fd,          \* the listening socket
    pc,                 \* where the event loop stands
    i,                  \* the slot index of the for loop
    sock,               \* kernel: the connection open on each fd number
    nconn,              \* kernel: connections accepted so far
    nofile,             \* kernel: the descriptor limit (RLIMIT_NOFILE)
    err                 \* stderr: "Write buffer overflow" when the last handler
                        \* call wrote that line, else "" (perror lines are left out)

vars == <<clients, master_read_set, master_write_set, read_set, write_set,
          max_fd, server_fd, pc, i, sock, nconn, nofile, err>>

\* The fd numbers an fd_set has a bit for.
Fds == 0 .. (FD_SETSIZE - 1)
\* The fd numbers the kernel can hand out.
Descriptors == 0 .. (nofile - 1)
Slots == 0 .. (FD_SETSIZE - 1)

Min(a, b) == IF a <= b THEN a ELSE b

\* ------------------------------------------------------------ byte runs
\* The connection of the bytes that belong to none.
Garbage == 0 - 1

Run(c, lo, n) == [c |-> c, lo |-> lo, n |-> n]

RECURSIVE RunsLen(_)
RunsLen(rs) == IF rs = <<>> THEN 0 ELSE Head(rs).n + RunsLen(Tail(rs))

\* Adjacent runs that continue each other are one run.
RECURSIVE Coalesce(_)
Coalesce(rs) ==
    IF Len(rs) < 2 THEN rs
    ELSE LET a == rs[1]
             b == rs[2]
         IN  IF a.c = b.c /\ (a.c = Garbage \/ a.lo + a.n = b.lo)
             THEN Coalesce(<<Run(a.c, a.lo, a.n + b.n)>> \o Tail(Tail(rs)))
             ELSE <<a>> \o Coalesce(Tail(rs))

\* The first k bytes of an array holding rs; bytes never written are Garbage.
RECURSIVE TakeBytes(_, _)
TakeBytes(rs, k) ==
    IF k <= 0 THEN <<>>
    ELSE IF rs = <<>> THEN <<Run(Garbage, 0, k)>>
    ELSE IF Head(rs).n <= k
         THEN <<Head(rs)>> \o TakeBytes(Tail(rs), k - Head(rs).n)
         ELSE <<[Head(rs) EXCEPT !.n = k]>>

\* The array's bytes from position k on.
RECURSIVE DropBytes(_, _)
DropBytes(rs, k) ==
    IF k <= 0 \/ rs = <<>> THEN rs
    ELSE IF Head(rs).n <= k
         THEN DropBytes(Tail(rs), k - Head(rs).n)
         ELSE <<[Head(rs) EXCEPT !.lo = IF Head(rs).c = Garbage THEN 0 ELSE @ + k,
                                 !.n = @ - k]>> \o Tail(rs)

\* The bytes data[off .. off+k-1].
Slice(data, off, k) == Coalesce(TakeBytes(DropBytes(data, off), k))

\* memcpy(data + pos, src, len): src is a byte string of len bytes.
Memcpy(data, pos, src, len) ==
    Coalesce(TakeBytes(data, pos) \o src \o DropBytes(data, pos + len))

\* ------------------------------------------------------------ write buffer
\* The bytes of the array that are still determinate: data[0 .. size-1].
Live(buf) == [buf EXCEPT !.data = Coalesce(TakeBytes(@, buf.size))]

\* Mutant: the reset is forgotten.
init_write_buffer_forgotten(buf) == Live(buf)

init_write_buffer(buf) == Live([buf EXCEPT !.size = 0, !.offset = 0])

write_buffer_empty(buf) == buf.offset >= buf.size

\* Mutant: memcpy to data instead of data + size.
write_buffer_append_at_start(buf, data, len) ==
    IF buf.size + len > MAX_PENDING_WRITES
    THEN [ok |-> FALSE, buf |-> buf]
    ELSE LET b == IF buf.offset >= buf.size
                  THEN [buf EXCEPT !.size = 0, !.offset = 0]
                  ELSE buf
         IN  [ok |-> TRUE,
              buf |-> Live([b EXCEPT !.data = Memcpy(b.data, 0, data, len),
                                     !.size = b.size + len])]

\* Mutant: no capacity check.
write_buffer_append_unchecked(buf, data, len) ==
    LET b == IF buf.offset >= buf.size
             THEN [buf EXCEPT !.size = 0, !.offset = 0]
             ELSE buf
    IN  [ok |-> TRUE,
         buf |-> Live([b EXCEPT !.data = Memcpy(b.data, b.size, data, len),
                                !.size = b.size + len])]

\* Mutant: the capacity check is >= instead of >.
write_buffer_append_off_by_one(buf, data, len) ==
    IF buf.size + len >= MAX_PENDING_WRITES
    THEN [ok |-> FALSE, buf |-> buf]
    ELSE LET b == IF buf.offset >= buf.size
                  THEN [buf EXCEPT !.size = 0, !.offset = 0]
                  ELSE buf
         IN  [ok |-> TRUE,
              buf |-> Live([b EXCEPT !.data = Memcpy(b.data, b.size, data, len),
                                     !.size = b.size + len])]

\* Mutant: the capacity checked is that of the receive buffer.
write_buffer_append_wrong_limit(buf, data, len) ==
    IF buf.size + len > BUFFER_SIZE
    THEN [ok |-> FALSE, buf |-> buf]
    ELSE LET b == IF buf.offset >= buf.size
                  THEN [buf EXCEPT !.size = 0, !.offset = 0]
                  ELSE buf
         IN  [ok |-> TRUE,
              buf |-> Live([b EXCEPT !.data = Memcpy(b.data, b.size, data, len),
                                     !.size = b.size + len])]

\* Mutant: the space already sent counts as free.
write_buffer_append_reclaims(buf, data, len) ==
    IF (buf.size - buf.offset) + len > MAX_PENDING_WRITES
    THEN [ok |-> FALSE, buf |-> buf]
    ELSE LET b == IF buf.offset >= buf.size
                  THEN [buf EXCEPT !.size = 0, !.offset = 0]
                  ELSE buf
         IN  [ok |-> TRUE,
              buf |-> Live([b EXCEPT !.data = Memcpy(b.data, b.size, data, len),
                                     !.size = b.size + len])]

write_buffer_append(buf, data, len) ==
    IF buf.size + len > MAX_PENDING_WRITES
    THEN [ok |-> FALSE, buf |-> buf]
    ELSE LET b == IF buf.offset >= buf.size
                  THEN [buf EXCEPT !.size = 0, !.offset = 0]
                  ELSE buf
         IN  [ok |-> TRUE,
              buf |-> Live([b EXCEPT !.data = Memcpy(b.data, b.size, data, len),
                                     !.size = b.size + len])]

\* One send() call: the kernel takes min(room, len) bytes when it has room,
\* and fails with errno otherwise.
SendResult(o, len) == IF o.room > 0 THEN Min(o.room, len) ELSE 0 - 1

\* Mutant: a send that would block is reported as "all sent".
RECURSIVE write_buffer_flush_done_on_block(_, _, _)
write_buffer_flush_done_on_block(buf, outs, wire) ==
    IF buf.offset < buf.size
    THEN LET o == Head(outs)
             sent == SendResult(o, buf.size - buf.offset)
         IN  IF sent < 0
             THEN IF o.errno = "EAGAIN"
                  THEN [result |-> 0, buf |-> buf, wire |-> wire]
                  ELSE [result |-> 0 - 1, buf |-> buf, wire |-> wire]
             ELSE write_buffer_flush_done_on_block(
                      [buf EXCEPT !.offset = @ + sent],
                      IF Len(outs) > 1 THEN Tail(outs) ELSE outs,
                      Coalesce(wire \o Slice(buf.data, buf.offset, sent)))
    ELSE [result |-> 0, buf |-> Live([buf EXCEPT !.size = 0, !.offset = 0]), wire |-> wire]

\* Mutant: the reset after the loop is missing.
RECURSIVE write_buffer_flush_no_reset(_, _, _)
write_buffer_flush_no_reset(buf, outs, wire) ==
    IF buf.offset < buf.size
    THEN LET o == Head(outs)
             sent == SendResult(o, buf.size - buf.offset)
         IN  IF sent < 0
             THEN IF o.errno = "EAGAIN"
                  THEN [result |-> 1, buf |-> buf, wire |-> wire]
                  ELSE [result |-> 0 - 1, buf |-> buf, wire |-> wire]
             ELSE write_buffer_flush_no_reset(
                      [buf EXCEPT !.offset = @ + sent],
                      IF Len(outs) > 1 THEN Tail(outs) ELSE outs,
                      Coalesce(wire \o Slice(buf.data, buf.offset, sent)))
    ELSE [result |-> 0, buf |-> buf, wire |-> wire]

\* outs: what the kernel answers to the successive send() calls of one flush
\* (the last answer repeats).  wire: the bytes transmitted so far.
RECURSIVE write_buffer_flush(_, _, _)
write_buffer_flush(buf, outs, wire) ==
    IF buf.offset < buf.size
    THEN LET o == Head(outs)
             sent == SendResult(o, buf.size - buf.offset)
         IN  IF sent < 0
             THEN IF o.errno = "EAGAIN"
                  THEN [result |-> 1, buf |-> buf, wire |-> wire]
                  ELSE [result |-> 0 - 1, buf |-> buf, wire |-> wire]
             ELSE write_buffer_flush(
                      [buf EXCEPT !.offset = @ + sent],
                      IF Len(outs) > 1 THEN Tail(outs) ELSE outs,
                      Coalesce(wire \o Slice(buf.data, buf.offset, sent)))
    ELSE [result |-> 0, buf |-> Live([buf EXCEPT !.size = 0, !.offset = 0]), wire |-> wire]

\* ------------------------------------------------------------ kernel
\* Connections are numbered from 1; id 0 is an fd number with none open.
NoConn == [id |-> 0, rcvd |-> 0, wire |-> <<>>, nreads |-> 0]

OpenFds == {server_fd} \cup {f \in Descriptors : sock[f].id # 0}

\* The fd number accept() returns: the kernel hands out the lowest free one.
\* The numbers under server_fd were taken when socket() returned server_fd,
\* and the program never closes them.
FreeFds ==
    LET free == {f \in Descriptors \ OpenFds : f > server_fd}
    IN  {f \in free : \A g \in free : f <= g}

\* close(fd)
KClose(sk, fd) == IF fd \in DOMAIN sk THEN [sk EXCEPT ![fd] = NoConn] ELSE sk

\* ------------------------------------------------------------ server state
\* The state a handler starts from: it has written nothing to stderr yet,
\* has not left defined behaviour (fault), and has made no system call on a
\* descriptor (closed: the arguments of its close() calls; used: those of
\* its recv() and send() calls).
State == [clients |-> clients, master_read_set |-> master_read_set,
          master_write_set |-> master_write_set, max_fd |-> max_fd,
          sock |-> sock, nconn |-> nconn, err |-> "", fault |-> "",
          closed |-> {}, used |-> {}]

Commit(S) ==
    /\ clients' = S.clients
    /\ master_read_set' = S.master_read_set
    /\ master_write_set' = S.master_write_set
    /\ max_fd' = S.max_fd
    /\ sock' = S.sock
    /\ nconn' = S.nconn
    /\ err' = S.err

\* Mutant: FD_CLR(fd, master_read_set) is missing.
close_client_keeps_read_interest(S, list_index) ==
    LET fd == S.clients[list_index].fd
    IN  IF fd < 0 THEN S
        ELSE [S EXCEPT !.sock = KClose(@, fd),
                       !.closed = @ \cup {fd},
                       !.master_write_set = @ \ {fd},
                       !.clients[list_index].fd = 0 - 1,
                       !.clients[list_index].write_buf = init_write_buffer(@)]

\* Mutant: init_write_buffer is not called.
close_client_keeps_buffer(S, list_index) ==
    LET fd == S.clients[list_index].fd
    IN  IF fd < 0 THEN S
        ELSE [S EXCEPT !.sock = KClose(@, fd),
                       !.closed = @ \cup {fd},
                       !.master_read_set = @ \ {fd},
                       !.master_write_set = @ \ {fd},
                       !.clients[list_index].fd = 0 - 1]

\* Mutant: the slot is not marked empty.
close_client_keeps_fd(S, list_index) ==
    LET fd == S.clients[list_index].fd
    IN  IF fd < 0 THEN S
        ELSE [S EXCEPT !.sock = KClose(@, fd),
                       !.closed = @ \cup {fd},
                       !.master_read_set = @ \ {fd},
                       !.master_write_set = @ \ {fd},
                       !.clients[list_index].write_buf = init_write_buffer(@)]

\* Mutant: the test of fd < 0 is missing.
close_client_unguarded(S, list_index) ==
    LET fd == S.clients[list_index].fd
    IN  [S EXCEPT !.sock = KClose(@, fd),
                  !.closed = @ \cup {fd},
                  !.master_read_set = @ \ {fd},
                  !.master_write_set = @ \ {fd},
                  !.clients[list_index].fd = 0 - 1,
                  !.clients[list_index].write_buf = init_write_buffer(@)]

close_client(S, list_index) ==
    LET fd == S.clients[list_index].fd
    IN  IF fd < 0 THEN S
        ELSE [S EXCEPT !.sock = KClose(@, fd),
                       !.closed = @ \cup {fd},
                       !.master_read_set = @ \ {fd},
                       !.master_write_set = @ \ {fd},
                       !.clients[list_index].fd = 0 - 1,
                       !.clients[list_index].write_buf = init_write_buffer(@)]

\* ------------------------------------------------------------ acceptor
\* if (client_fd > *max_fd) *max_fd = client_fd;
\* Mutant: max_fd is never raised.
UpdateMaxFd_never(m, client_fd) == m

UpdateMaxFd(m, client_fd) == IF client_fd > m THEN client_fd ELSE m

\* for (i = 0; i < FD_SETSIZE; ++i) if (clients[i].fd < 0) ... break;
\* The index of the slot found, or -1.
RECURSIVE FindEmptySlot(_, _)
FindEmptySlot(cl, k) ==
    IF k >= FD_SETSIZE THEN 0 - 1
    ELSE IF cl[k].fd < 0 THEN k
    ELSE FindEmptySlot(cl, k + 1)

\* The kernel's side of a successful accept(): a new connection on fd.
KAccept(S, fd) ==
    [S EXCEPT !.sock[fd] = [id |-> S.nconn + 1, rcvd |-> 0, wire |-> <<>>, nreads |-> 0],
              !.nconn = @ + 1]

\* Mutant: the close() after a failed set_nonblocking is missing.
handle_new_connection_leaks(S, a) ==
    IF a.client_fd = 0 - 1
    THEN S
    ELSE LET K == KAccept(S, a.client_fd)
         IN  IF a.nonblock < 0
             THEN K
             ELSE IF a.client_fd >= FD_SETSIZE
             THEN [K EXCEPT !.fault = a.ub]
             ELSE LET S1 == [K EXCEPT !.master_read_set = @ \cup {a.client_fd},
                                      !.max_fd = UpdateMaxFd(@, a.client_fd)]
                      slot == FindEmptySlot(S1.clients, 0)
                  IN  IF slot >= 0
                      THEN [S1 EXCEPT !.clients[slot].fd = a.client_fd,
                                      !.clients[slot].write_buf = init_write_buffer(@)]
                      ELSE [S1 EXCEPT !.sock = KClose(@, a.client_fd),
                                      !.closed = @ \cup {a.client_fd},
                                      !.master_read_set = @ \ {a.client_fd}]

\* a: what accept() and set_nonblocking() answer.  FD_SET(client_fd, ...) with
\* client_fd >= FD_SETSIZE is undefined: a.ub is what the build makes of it,
\* "aborted" (the C library checks the index and ends the process) or
\* "corrupted" (a bit is written past the end of master_read_set); from
\* either the source no longer says what the process does.
handle_new_connection(S, a) ==
    IF a.client_fd = 0 - 1
    THEN S
    ELSE LET K == KAccept(S, a.client_fd)
         IN  IF a.nonblock < 0
             THEN [K EXCEPT !.sock = KClose(@, a.client_fd),
                            !.closed = @ \cup {a.client_fd}]
             ELSE IF a.client_fd >= FD_SETSIZE
             THEN [K EXCEPT !.fault = a.ub]
             ELSE LET S1 == [K EXCEPT !.master_read_set = @ \cup {a.client_fd},
                                      !.max_fd = UpdateMaxFd(@, a.client_fd)]
                      slot == FindEmptySlot(S1.clients, 0)
                  IN  IF slot >= 0
                      THEN [S1 EXCEPT !.clients[slot].fd = a.client_fd,
                                      !.clients[slot].write_buf = init_write_buffer(@)]
                      ELSE [S1 EXCEPT !.sock = KClose(@, a.client_fd),
                                      !.closed = @ \cup {a.client_fd},
                                      !.master_read_set = @ \ {a.client_fd}]

\* ------------------------------------------------------------ read handler
\* The kernel's side of recv(): r.n bytes of the connection's inbound stream
\* are handed over; a closed fd answers EBADF.
KRecv(S, fd, r) ==
    LET conn == S.sock[fd]
    IN  IF conn.id = 0
        THEN [n |-> 0 - 1, errno |-> "EBADF", buffer |-> <<>>,
              S |-> [S EXCEPT !.used = @ \cup {fd}]]
        ELSE [n |-> r.n, errno |-> r.errno,
              buffer |-> IF r.n > 0 THEN <<Run(conn.id, conn.rcvd, r.n)>> ELSE <<>>,
              S |-> [S EXCEPT !.sock[fd].rcvd = IF r.n > 0 THEN @ + r.n ELSE @,
                              !.sock[fd].nreads = IF r.n > 0 THEN @ + 1 ELSE @,
                              !.used = @ \cup {fd}]]

\* Mutant: FD_SET(fd, master_write_set) is missing.
handle_client_read_unarmed(S, list_index, r) ==
    LET fd == S.clients[list_index].fd
        k == KRecv(S, fd, r)
        bytes_received == k.n
    IN  IF bytes_received < 0
        THEN IF k.errno = "EAGAIN" THEN k.S
             ELSE close_client(k.S, list_index)
        ELSE IF bytes_received = 0
        THEN close_client(k.S, list_index)
        ELSE LET a == write_buffer_append(k.S.clients[list_index].write_buf,
                                          k.buffer, bytes_received)
             IN  IF ~a.ok
                 THEN close_client([k.S EXCEPT !.clients[list_index].write_buf = a.buf,
                                               !.err = "Write buffer overflow"],
                                   list_index)
                 ELSE [k.S EXCEPT !.clients[list_index].write_buf = a.buf]

handle_client_read(S, list_index, r) ==
    LET fd == S.clients[list_index].fd
        k == KRecv(S, fd, r)
        bytes_received == k.n
    IN  IF bytes_received < 0
        THEN IF k.errno = "EAGAIN" THEN k.S
             ELSE close_client(k.S, list_index)
        ELSE IF bytes_received = 0
        THEN close_client(k.S, list_index)
        ELSE LET a == write_buffer_append(k.S.clients[list_index].write_buf,
                                          k.buffer, bytes_received)
             IN  IF ~a.ok
                 THEN close_client([k.S EXCEPT !.clients[list_index].write_buf = a.buf,
                                               !.err = "Write buffer overflow"],
                                   list_index)
                 ELSE [k.S EXCEPT !.clients[list_index].write_buf = a.buf,
                                  !.master_write_set = @ \cup {fd}]

\* ------------------------------------------------------------ write handler
handle_client_write(S, list_index, outs) ==
    LET fd == S.clients[list_index].fd
        buf == S.clients[list_index].write_buf
        o == IF S.sock[fd].id = 0 THEN <<[room |-> 0, errno |-> "EBADF"]>> ELSE outs
        f == write_buffer_flush(buf, o, <<>>)
        S1 == [S EXCEPT !.clients[list_index].write_buf = f.buf,
                        !.sock[fd].wire = Coalesce(@ \o f.wire),
                        !.used = IF buf.offset < buf.size THEN @ \cup {fd} ELSE @]
    IN  IF f.result = 0 - 1
        THEN close_client(S1, list_index)
        ELSE IF f.result = 0
        THEN [S1 EXCEPT !.master_write_set = @ \ {fd}]
        ELSE S1

\* ------------------------------------------------------------ event loop
\* The for loop of run_server_with_select from slot k on, up to the next
\* handler call: stage "read" is the test of line 333, stage "write" the test
\* of line 339.  Past the last slot the loop is back at select().
RECURSIVE Dispatch(_, _, _, _, _)
Dispatch(cl, rs, ws, k, stage) ==
    IF k >= FD_SETSIZE THEN [pc |-> "select", i |-> 0]
    ELSE IF stage = "read"
    THEN IF cl[k].fd < 0 THEN Dispatch(cl, rs, ws, k + 1, "read")
         ELSE IF cl[k].fd \in rs THEN [pc |-> "read", i |-> k]
         ELSE Dispatch(cl, rs, ws, k, "write")
    ELSE IF cl[k].fd >= 0 /\ cl[k].fd \in ws THEN [pc |-> "write", i |-> k]
         ELSE Dispatch(cl, rs, ws, k + 1, "read")

\* Mutant: FD_ISSET is asked of the master sets.
Resume_on_master_sets(S, k, stage) ==
    LET nx == IF S.fault # "" THEN [pc |-> S.fault, i |-> i]
              ELSE Dispatch(S.clients, S.master_read_set, S.master_write_set, k, stage)
    IN  /\ Commit(S)
        /\ pc' = nx.pc
        /\ i' = nx.i
        /\ read_set' = IF nx.pc = "select" THEN S.master_read_set ELSE read_set
        /\ write_set' = IF nx.pc = "select" THEN S.master_write_set ELSE write_set
        /\ UNCHANGED <<server_fd, nofile>>

\* A handler has returned state S; the loop goes on from slot k, stage.  Back
\* at the top of the loop the master sets are copied into the working sets.
Resume(S, k, stage) ==
    LET nx == IF S.fault # "" THEN [pc |-> S.fault, i |-> i]
              ELSE Dispatch(S.clients, read_set, write_set, k, stage)
    IN  /\ Commit(S)
        /\ pc' = nx.pc
        /\ i' = nx.i
        /\ read_set' = IF nx.pc = "select" THEN S.master_read_set ELSE read_set
        /\ write_set' = IF nx.pc = "select" THEN S.master_write_set ELSE write_set
        /\ UNCHANGED <<server_fd, nofile>>

\* ------------------------------------------------------------ environment
RecvLens == {1, BUFFER_SIZE}

RECURSIVE SumReads(_, _)
SumReads(sk, f) == IF f >= FD_SETSIZE THEN 0 ELSE sk[f].nreads + SumReads(sk, f + 1)

RecvOutcomes ==
    {[n |-> 0 - 1, errno |-> "EAGAIN"], [n |-> 0 - 1, errno |-> "ECONNRESET"],
     [n |-> 0, errno |-> ""]}
    \cup {[n |-> L, errno |-> ""] : L \in IF SumReads(sock, 0) < MaxReads THEN RecvLens ELSE {}}

SendLast == {[room |-> 0, errno |-> "EAGAIN"], [room |-> 0, errno |-> "ECONNRESET"],
             [room |-> MAX_PENDING_WRITES, errno |-> ""]}

SendScripts == {<<t>> : t \in SendLast}
               \cup {<<[room |-> BUFFER_SIZE, errno |-> ""], t>> : t \in SendLast}

AcceptOutcomes ==
    {[client_fd |-> 0 - 1, errno |-> e, nonblock |-> 0, ub |-> ""] :
        e \in {"EAGAIN", "ECONNABORTED"}}
    \cup {[client_fd |-> f, errno |-> "", nonblock |-> 0 - 1, ub |-> ""] :
             f \in IF nconn < MaxConns THEN FreeFds ELSE {}}
    \cup UNION {{[client_fd |-> f, errno |-> "", nonblock |-> 0, ub |-> u] :
                    u \in IF f \in Fds THEN {""} ELSE {"aborted", "corrupted"}} :
                 f \in IF nconn < MaxConns THEN FreeFds ELSE {}}

\* ------------------------------------------------------------ actions
\* The state after the initialisation of run_server_with_select, in a
\* process whose descriptor limit is limit.
Boot(limit) ==
    /\ nofile = limit
    /\ server_fd \in Fds
    /\ max_fd = server_fd
    /\ master_read_set = {server_fd}
    /\ master_write_set = {}
    /\ clients = [s \in Slots |->
                    [fd |-> 0 - 1,
                     write_buf |-> init_write_buffer([data |-> <<>>, size |-> 0, offset |-> 0])]]
    /\ read_set = master_read_set
    /\ write_set = master_write_set
    /\ pc = "select"
    /\ i = 0
    /\ sock = [f \in 0 .. (limit - 1) |-> NoConn]
    /\ nconn = 0
    /\ err = ""

\* The descriptor limit is FD_SETSIZE: every fd number fits an fd_set.
Init == Boot(FD_SETSIZE)

\* select() returns the ready fds among the first max_fd + 1 of each set; the
\* bits from max_fd + 1 on are not looked at and stay as copied.
SelectReturns ==
    /\ pc = "select"
    /\ \E rs \in SUBSET {f \in master_read_set : f <= max_fd},
          ws \in SUBSET {f \in master_write_set : f <= max_fd} :
          /\ rs \cup ws # {}
          /\ LET r == rs \cup {f \in master_read_set : f > max_fd}
                 w == ws \cup {f \in master_write_set : f > max_fd}
                 nx == IF server_fd \in r THEN [pc |-> "accept", i |-> 0]
                       ELSE Dispatch(clients, r, w, 0, "read")
             IN  /\ pc' = nx.pc
                 /\ i' = nx.i
                 /\ read_set' = IF nx.pc = "select" THEN master_read_set ELSE r
                 /\ write_set' = IF nx.pc = "select" THEN master_write_set ELSE w
    /\ UNCHANGED <<clients, master_read_set, master_write_set, max_fd, server_fd, sock, nconn,
                   nofile, err>>

\* select() fails with EINTR (a failed select() leaves its sets as they were).
SelectInterrupted ==
    /\ pc = "select"
    /\ pc' = "interrupted"
    /\ UNCHANGED <<clients, master_read_set, master_write_set, read_set, write_set,
                   max_fd, server_fd, i, sock, nconn, nofile, err>>

\* Mutant: the continue is missing, the loop goes on to line 319 with the
\* working sets as copied.
ResumeWaiting_falls_through ==
    /\ pc = "interrupted"
    /\ LET nx == IF server_fd \in read_set THEN [pc |-> "accept", i |-> 0]
                 ELSE Dispatch(clients, read_set, write_set, 0, "read")
       IN  pc' = nx.pc /\ i' = nx.i
    /\ UNCHANGED <<clients, master_read_set, master_write_set, read_set, write_set,
                   max_fd, server_fd, sock, nconn, nofile, err>>

\* continue: back at the top of the loop the master sets are copied again and
\* select() is called again.
ResumeWaiting ==
    /\ pc = "interrupted"
    /\ pc' = "select"
    /\ read_set' = master_read_set
    /\ write_set' = master_write_set
    /\ UNCHANGED <<clients, master_read_set, master_write_set, max_fd, server_fd, i,
                   sock, nconn, nofile, err>>

\* select() fails with another error: return -1.
SelectFails ==
    /\ pc = "select"
    /\ pc' = "returned"
    /\ UNCHANGED <<clients, master_read_set, master_write_set, read_set, write_set,
                   max_fd, server_fd, i, sock, nconn, nofile, err>>

OnListenerReadable ==
    /\ pc = "accept"
    /\ \E a \in AcceptOutcomes :
          \E S \in {handle_new_connection(State, a)} : Resume(S, 0, "read")

\* Mutant: line 339 tests only FD_ISSET(fd, &write_set), with the fd read
\* before the read handler.
OnClientReadable_no_recheck ==
    /\ pc = "read"
    /\ \E r \in RecvOutcomes :
          \E S \in {handle_client_read(State, i, r)} :
              IF clients[i].fd \in write_set
              THEN /\ Commit(S)
                   /\ pc' = "write"
                   /\ UNCHANGED <<i, read_set, write_set, server_fd, nofile>>
              ELSE Resume(S, i + 1, "read")

OnClientReadable ==
    /\ pc = "read"
    /\ \E r \in RecvOutcomes :
          \E S \in {handle_client_read(State, i, r)} : Resume(S, i, "write")

OnClientWritable ==
    /\ pc = "write"
    /\ \E outs \in SendScripts :
          \E S \in {handle_client_write(State, i, outs)} : Resume(S, i + 1, "read")

Next ==
    \/ SelectReturns
    \/ SelectInterrupted
    \/ ResumeWaiting
    \/ SelectFails
    \/ OnListenerReadable
    \/ OnClientReadable
    \/ OnClientWritable

Spec == Init /\ [][Next]_vars

\* The same program in a process whose descriptor limit is above FD_SETSIZE.
RaisedLimitInit == Boot(FD_SETSIZE + 1)

RaisedLimitSpec == RaisedLimitInit /\ [][Next]_vars

\* The scheduling the echo relies on: the loop keeps running; a client fd
\* that stays in the master write set is reported writable again and again;
\* and a write handler that keeps being called finds, again and again, a
\* socket that takes all it is given.
SelectWritable(f) == SelectReturns /\ f \in write_set'

SendAll == <<[room |-> MAX_PENDING_WRITES, errno |-> ""]>>

WriteAll(s) ==
    /\ pc = "write"
    /\ i = s
    /\ \E S \in {handle_client_write(State, i, SendAll)} : Resume(S, i + 1, "read")

Fairness ==
    /\ WF_vars(Next)
    /\ \A f \in Fds : SF_vars(SelectWritable(f))
    /\ \A s \in Slots : SF_vars(WriteAll(s))

FairSpec == Spec /\ Fairness

TypeOK ==
    /\ pc \in {"select", "interrupted", "accept", "read", "write",
              "returned", "aborted", "corrupted"}
    /\ i \in Slots
    /\ max_fd \in Fds
    /\ \A s \in Slots : clients[s].fd \in Fds \cup {0 - 1}

\* ------------------------------------------------------------ vocabulary
Occupied(s) == clients[s].fd >= 0

IsOpen(f) == sock[f].id # 0

WireLen(f) == RunsLen(sock[f].wire)

\* The first n bytes of the inbound stream of connection c.
Stream(c, n) == IF n = 0 THEN <<>> ELSE <<Run(c, 0, n)>>

\* The bytes staged and not yet transmitted.
Pending(buf) == buf.size - buf.offset

OnlyBytesOf(c, rs) == \A k \in 1 .. Len(rs) : rs[k].c = c

NoBytesOf(c, rs) == \A k \in 1 .. Len(rs) : rs[k].c # c

OccupiedSlots == {s \in Slots : Occupied(s)}

\* ------------------------------------------------------------ C1
\* C1: on every open connection the bytes the server has transmitted are,
\* in order and without gap or repetition, the first bytes the server has
\* received on that connection.
EchoIsPrefix ==
    \A f \in Fds : IsOpen(f) =>
        /\ WireLen(f) <= sock[f].rcvd
        /\ sock[f].wire = Stream(sock[f].id, WireLen(f))

\* A connection whose buffer has been drained and reset once, refilled by
\* two reads and partly flushed.
EchoIsPrefixWitness ==
    \E s \in Slots :
        /\ Occupied(s)
        /\ 0 < clients[s].write_buf.offset
        /\ clients[s].write_buf.offset < clients[s].write_buf.size
        /\ WireLen(clients[s].fd) > clients[s].write_buf.offset
        /\ sock[clients[s].fd].rcvd > WireLen(clients[s].fd)

\* ------------------------------------------------------------ C3
\* C3: a connection is sent, and has staged for it, only bytes received on
\* it; and a connection on which nothing has been received yet, whatever
\* slot and fd number it took over, has an empty write buffer (size = 0,
\* offset = 0) and its fd outside the master write set.
Isolation ==
    /\ \A f \in Fds : IsOpen(f) => OnlyBytesOf(sock[f].id, sock[f].wire)
    /\ \A s \in Slots : Occupied(s) /\ IsOpen(clients[s].fd) =>
          /\ OnlyBytesOf(sock[clients[s].fd].id, clients[s].write_buf.data)
          /\ sock[clients[s].fd].rcvd = 0 =>
                /\ clients[s].write_buf.size = 0
                /\ clients[s].write_buf.offset = 0
                /\ clients[s].fd \notin master_write_set

\* The second connection, alone, on the lowest client fd and in slot 0 (both
\* were the first connection's), has been echoed bytes.
IsolationWitness ==
    /\ Occupied(0)
    /\ clients[0].fd = server_fd + 1
    /\ sock[clients[0].fd].id = 2
    /\ WireLen(clients[0].fd) > 0
    /\ \A s \in Slots \ {0} : ~Occupied(s)

\* ------------------------------------------------------------ C4
\* C4: at every handler boundary a slot is occupied iff its fd is in the
\* master read set, and the master read set holds the listener and the fds of
\* the occupied slots and nothing else.
ReadSetInvariant ==
    /\ \A s \in Slots : Occupied(s) <=> clients[s].fd \in master_read_set
    /\ master_read_set = {server_fd} \cup {clients[s].fd : s \in OccupiedSlots}

\* A slot whose write buffer is full and undrained still has read interest.
ReadSetInvariantWitness ==
    \E s \in Slots :
        /\ Occupied(s)
        /\ clients[s].write_buf.size = MAX_PENDING_WRITES
        /\ clients[s].write_buf.offset = 0
        /\ clients[s].fd \in master_read_set
        /\ pc = "select"

\* ------------------------------------------------------------ C5
\* C5: at every handler boundary, and so whenever the loop is about to call
\* select, the fd of an occupied slot is in the master write set iff the
\* slot's write buffer is non-empty (offset < size); no other fd is in it.
WriteSetInvariant ==
    /\ \A s \in Slots : Occupied(s) =>
          (clients[s].fd \in master_write_set
              <=> clients[s].write_buf.offset < clients[s].write_buf.size)
    /\ master_write_set \subseteq {clients[s].fd : s \in OccupiedSlots}

\* One slot left armed by a partial flush, another disarmed by a full one.
WriteSetInvariantWitness ==
    /\ pc = "select"
    /\ \E s, t \in Slots :
          /\ Occupied(s) /\ Occupied(t)
          /\ clients[s].fd \in master_write_set
          /\ 0 < clients[s].write_buf.offset
          /\ clients[t].fd \notin master_write_set
          /\ WireLen(clients[t].fd) > 0

\* ------------------------------------------------------------ C6
\* C6: max_fd is at least the listener fd, the fd of every occupied slot and
\* every fd in a master set.
MaxFdInvariant ==
    /\ max_fd >= server_fd
    /\ \A s \in Slots : Occupied(s) => clients[s].fd <= max_fd
    /\ \A f \in master_read_set \cup master_write_set : f <= max_fd

\* About to call select with the highest client fd accepted, a lower one
\* closed again.
MaxFdInvariantWitness ==
    /\ pc = "select"
    /\ \E s \in Slots : Occupied(s) /\ clients[s].fd = max_fd /\ max_fd > server_fd + 1
    /\ ~IsOpen(server_fd + 1)

\* ------------------------------------------------------------ C7
\* C7: for every slot 0 <= offset <= size <= MAX_PENDING_WRITES, and the
\* bytes written into data end at size.
WriteBufferBounds ==
    \A s \in Slots :
        /\ 0 <= clients[s].write_buf.offset
        /\ clients[s].write_buf.offset <= clients[s].write_buf.size
        /\ clients[s].write_buf.size <= MAX_PENDING_WRITES
        /\ RunsLen(clients[s].write_buf.data) = clients[s].write_buf.size

\* A buffer filled to the last byte and partly drained.
WriteBufferBoundsWitness ==
    \E s \in Slots :
        /\ clients[s].write_buf.size = MAX_PENDING_WRITES
        /\ 0 < clients[s].write_buf.offset
        /\ clients[s].write_buf.offset < clients[s].write_buf.size

\* ------------------------------------------------------------ C10
\* C10: the occupied slots hold pairwise distinct fds, none of them the
\* listener's, so at most FD_SETSIZE - 1 slots are occupied.
ConnectionLimit ==
    /\ Cardinality(OccupiedSlots) <= FD_SETSIZE - 1
    /\ \A s \in OccupiedSlots : clients[s].fd \in Fds \ {server_fd}
    /\ \A s, t \in OccupiedSlots : clients[s].fd = clients[t].fd => s = t

\* Every fd number but the listener's holds a connection.
ConnectionLimitWitness ==
    /\ Cardinality(OccupiedSlots) = FD_SETSIZE - 1
    /\ ~Occupied(FD_SETSIZE - 1)

\* ------------------------------------------------------------ C2
\* Slot s has bytes staged and not transmitted, or its connection has
\* received bytes that were not transmitted to it.
Unechoed(s) ==
    \/ Pending(clients[s].write_buf) > 0
    \/ /\ Occupied(s)
       /\ sock[clients[s].fd].wire # Stream(sock[clients[s].fd].id, sock[clients[s].fd].rcvd)

\* C2: under Fairness, and unless select fails and the loop returns, a slot
\* with a non-empty write buffer comes to a state where its buffer is empty
\* and its connection, if still open, has been transmitted all it has
\* received, in order.
EchoCompletes ==
    \A s \in Slots : Unechoed(s) ~> (~Unechoed(s) \/ pc = "returned")

\* A connection that was behind by a partly flushed buffer has been sent all
\* it has received, in two buffer fills.
EchoCompletesWitness ==
    \E s \in Slots :
        /\ Occupied(s)
        /\ sock[clients[s].fd].rcvd > MAX_PENDING_WRITES
        /\ sock[clients[s].fd].wire = Stream(sock[clients[s].fd].id, sock[clients[s].fd].rcvd)
        /\ Pending(clients[s].write_buf) = 0
        /\ clients[s].fd \notin master_write_set

\* ------------------------------------------------------------ C8
\* C8: a read handler that receives L > 0 bytes leaves the connection open
\* only if the append was not refused (size + L <= MAX_PENDING_WRITES); when
\* it reports the overflow, the fd is closed, the slot's fd is -1, the fd is
\* in neither master set, the buffer is reset, and no byte of the connection
\* is staged or on a wire any more; on a buffer holding MAX_PENDING_WRITES
\* undrained bytes the handler either receives nothing or closes.
BackpressureCloses ==
    [][pc = "read" =>
        LET fd == clients[i].fd
            b == clients[i].write_buf
            c == sock[fd].id
            L == sock'[fd].rcvd - sock[fd].rcvd
        IN  /\ (sock'[fd].id = c /\ L > 0) =>
                  /\ b.size + L <= MAX_PENDING_WRITES
                  /\ clients'[i].fd = fd
                  /\ Pending(clients'[i].write_buf) = Pending(b) + L
            /\ err' = "Write buffer overflow" =>
                  /\ b.size + BUFFER_SIZE > MAX_PENDING_WRITES
                  /\ sock'[fd] = NoConn
                  /\ clients'[i].fd = 0 - 1
                  /\ fd \notin master_read_set'
                  /\ fd \notin master_write_set'
                  /\ clients'[i].write_buf = [data |-> <<>>, size |-> 0, offset |-> 0]
                  /\ \A s \in Slots : NoBytesOf(c, clients'[s].write_buf.data)
                  /\ \A f \in Fds : NoBytesOf(c, sock'[f].wire)
            /\ Pending(b) = MAX_PENDING_WRITES =>
                  \/ clients'[i].fd = 0 - 1 /\ sock'[fd] = NoConn
                  \/ UNCHANGED <<clients, sock, master_read_set, master_write_set>>
    ]_vars

\* An overflow has just closed one connection; another one is still open.
BackpressureClosesWitness ==
    /\ err = "Write buffer overflow"
    /\ Cardinality(OccupiedSlots) = 1
    /\ \E s \in OccupiedSlots : IsOpen(clients[s].fd)

\* ------------------------------------------------------------ C9
\* C9 as stated: a connection with at most 10000 bytes received and nothing
\* echoed is closed once three read handlers have received data on it.
OverflowWithinThreeReads ==
    \A f \in Fds :
        (IsOpen(f) /\ sock[f].wire = <<>> /\ sock[f].rcvd <= 10000) => sock[f].nreads < 3

\* C9 as amended: a connection to which nothing has been echoed is open only
\* while it has received at most MAX_PENDING_WRITES bytes, all of them staged;
\* and an overflow closes a connection at the earliest in the third read
\* handler that receives data on it.
OverflowScenario ==
    /\ [](\A s \in Slots :
            (Occupied(s) /\ sock[clients[s].fd].wire = <<>>) =>
                /\ sock[clients[s].fd].rcvd <= MAX_PENDING_WRITES
                /\ Pending(clients[s].write_buf) = sock[clients[s].fd].rcvd)
    /\ [][(pc = "read" /\ err' = "Write buffer overflow")
             => sock[clients[i].fd].nreads >= 2]_vars

\* Two reads of BUFFER_SIZE bytes are staged, nothing is echoed, and the read
\* handler is about to run a third time on the connection.
OverflowScenarioWitness ==
    /\ pc = "read"
    /\ sock[clients[i].fd].nreads = 2
    /\ sock[clients[i].fd].rcvd = MAX_PENDING_WRITES
    /\ sock[clients[i].fd].wire = <<>>
    /\ Pending(clients[i].write_buf) = MAX_PENDING_WRITES

\* ------------------------------------------------------------ C11
\* C11: an acceptor call whose accept() succeeds leaves the loop running;
\* with every slot occupied it closes the new fd and changes no slot and
\* neither master set; with a slot free it installs the fd in the
\* lowest-index slot whose fd is -1 and changes no other slot (or, where
\* set_nonblocking failed, closes the fd and changes nothing).
SlotExhaustionRejects ==
    [][(pc = "accept" /\ nconn' = nconn + 1) =>
        LET fd == CHOOSE f \in FreeFds : TRUE
            slot == FindEmptySlot(clients, 0)
            rejected == /\ sock' = sock
                        /\ clients' = clients
                        /\ master_read_set' = master_read_set
                        /\ master_write_set' = master_write_set
        IN  /\ pc' \in {"select", "read", "write"}
            /\ IF slot < 0
               THEN rejected
               ELSE \/ rejected
                    \/ /\ sock'[fd].id = nconn'
                       /\ clients'[slot].fd = fd
                       /\ \A s \in Slots \ {slot} : clients'[s] = clients[s]
                       /\ fd \in master_read_set'
                       /\ fd \notin master_write_set'
    ]_vars

\* ------------------------------------------------------------ C12
\* The event loop is running.
InLoop(p) == p \in {"select", "interrupted", "accept", "read", "write"}

\* C12: the loop is left only by select() failing; whatever accept,
\* set_nonblocking, recv, send and the append answer to a handler, the loop
\* is still running after it and the slot table, the master sets and max_fd
\* are as C4, C5, C6, C7 and C10 say.
ErrorContainment ==
    [][/\ ~InLoop(pc') => (pc = "select" /\ pc' = "returned")
       /\ pc \in {"accept", "read", "write"} =>
              /\ InLoop(pc')
              /\ ReadSetInvariant'
              /\ WriteSetInvariant'
              /\ MaxFdInvariant'
              /\ WriteBufferBounds'
              /\ ConnectionLimit'
    ]_vars

\* ------------------------------------------------------------ C13
\* C13: from select() failing with EINTR until select() is called again no
\* handler is dispatched, and every slot's fd and write buffer, both master
\* sets and max_fd stay as they were (and no socket is touched).
InterruptedWaitFrame ==
    [][(pc' = "interrupted" \/ pc = "interrupted") =>
          /\ pc = "interrupted" => pc' = "select"
          /\ UNCHANGED <<clients, master_read_set, master_write_set, max_fd, sock>>
          /\ read_set' = master_read_set
          /\ write_set' = master_write_set
    ]_vars

\* select() was interrupted while a slot has bytes staged and partly sent.
InterruptedWaitFrameWitness ==
    /\ pc = "interrupted"
    /\ \E s \in Slots :
          /\ Occupied(s)
          /\ 0 < clients[s].write_buf.offset
          /\ clients[s].write_buf.offset < clients[s].write_buf.size
          /\ clients[s].fd \in master_write_set

\* ------------------------------------------------------------ C14
\* C14: in every state the loop reaches, close_client on a slot whose fd is
\* -1 changes nothing and calls close() on nothing; on an occupied slot it
\* closes the slot's fd, clears it from both master sets, marks the slot
\* empty and resets its buffer, and changes no other slot, no other fd's
\* bit in either master set, no other socket and not max_fd; a second
\* close_client on the slot changes nothing more.
CloseIdempotent ==
    \A s \in Slots :
        LET fd == clients[s].fd
            once == close_client(State, s)
            twice == close_client(once, s)
        IN  /\ twice = once
            /\ fd < 0 => once = State
            /\ fd >= 0 =>
                  /\ once.closed = {fd}
                  /\ once.sock = [sock EXCEPT ![fd] = NoConn]
                  /\ once.clients[s] = [fd |-> 0 - 1,
                                        write_buf |-> [data |-> <<>>, size |-> 0, offset |-> 0]]
                  /\ once.master_read_set = master_read_set \ {fd}
                  /\ once.master_write_set = master_write_set \ {fd}
            /\ \A t \in Slots \ {s} : once.clients[t] = clients[t]
            /\ once.max_fd = max_fd

\* A slot that held the highest fd has been closed (its fd is -1 again and
\* max_fd still names the closed fd) while another slot has bytes staged and
\* write interest.
CloseIdempotentWitness ==
    /\ max_fd > server_fd
    /\ ~IsOpen(max_fd)
    /\ \E s, t \in Slots :
          /\ s < t
          /\ Occupied(s)
          /\ ~Occupied(t)
          /\ clients[s].fd \in master_write_set
          /\ Pending(clients[s].write_buf) > 0

\* ------------------------------------------------------------ C15
\* Lengths an append is tried with: one byte, a full receive buffer, a full
\* write buffer, and one byte more than that.
AppendLens == {1, BUFFER_SIZE, MAX_PENDING_WRITES, MAX_PENDING_WRITES + 1}

\* len bytes that continue what slot s has received.
NextBytes(s, len) ==
    IF Occupied(s)
    THEN <<Run(sock[clients[s].fd].id, sock[clients[s].fd].rcvd, len)>>
    ELSE <<Run(0, 0, len)>>

FreshNotDispatched ==
    [][/\ (pc = "accept" /\ nconn' = nconn + 1) =>
              LET fd == CHOOSE f \in FreeFds : TRUE
              IN  /\ fd \notin read_set \cup write_set
                  /\ pc' \in {"read", "write"} =>
                        /\ clients'[i'].fd # fd
                        /\ sock'[clients'[i'].fd].id # nconn'
                        /\ fd \notin read_set' \cup write_set'
       /\ (pc \in {"accept", "read", "write"} /\ pc' \in {"read", "write"}) =>
              UNCHANGED <<read_set, write_set>>
       /\ pc' = "read" => clients'[i'].fd \in read_set'
       /\ pc' = "write" => clients'[i'].fd \in write_set'
    ]_vars

\* A read handler is about to run on the older connection while the newest
\* one, on which nothing was received, sits in a slot the loop has yet to
\* come to, with its fd in the master read set and in neither working set.
FreshNotDispatchedWitness ==
    /\ pc = "read"
    /\ \E s \in Slots :
          /\ s > i
          /\ Occupied(s)
          /\ sock[clients[s].fd].id = nconn
          /\ sock[clients[s].fd].rcvd = 0
          /\ clients[s].fd \in master_read_set
          /\ clients[s].fd \notin read_set \cup write_set

\* ------------------------------------------------------------ C17
\* The descriptors a handler call makes system calls on are open when it is
\* called: the read handler calls recv() on its slot's fd and close() on
\* nothing else, the write handler send() and close() on its slot's fd only.
SyscallsOnOpenFds ==
    LET open == {f \in Descriptors : IsOpen(f)}
        fd == clients[i].fd
    IN  /\ pc = "read" =>
              \A r \in RecvOutcomes :
                  LET S == handle_client_read(State, i, r)
                  IN  S.used = {fd} /\ S.closed \subseteq {fd} /\ fd \in open
        /\ pc = "write" =>
              \A outs \in SendScripts :
                  LET S == handle_client_write(State, i, outs)
                  IN  S.used \subseteq {fd} /\ S.closed \subseteq {fd} /\ fd \in open

\* C17: a handler is called only on an occupied slot whose fd is open and in
\* the matching working set; after the read handler on slot i the write
\* handler is called on slot i iff the slot is still occupied and its fd is
\* in the working write set, and otherwise the loop goes on to a later
\* slot; a write handler on a slot whose fd was reported readable comes
\* right after the read handler on that slot; and when the read handler
\* closes the connection, the slot's buffer is reset, no byte of the
\* connection stays staged anywhere and nothing more is sent to it.
ReadBeforeWrite ==
    /\ [](pc \in {"read", "write"} =>
            /\ Occupied(i)
            /\ IsOpen(clients[i].fd)
            /\ pc = "read" => clients[i].fd \in read_set
            /\ pc = "write" => clients[i].fd \in write_set
            /\ SyscallsOnOpenFds)
    /\ [][/\ pc = "read" =>
              LET fd == clients[i].fd
                  c == sock[fd].id
              IN  /\ (pc' = "write" /\ i' = i) <=> (clients'[i].fd >= 0 /\ fd \in write_set)
                  /\ pc' = "read" => i' > i
                  /\ pc' = "write" => i' >= i
                  /\ clients'[i].fd < 0 =>
                        /\ sock'[fd] = NoConn
                        /\ clients'[i].write_buf = [data |-> <<>>, size |-> 0, offset |-> 0]
                        /\ \A s \in Slots : NoBytesOf(c, clients'[s].write_buf.data)
                        /\ \A f \in Descriptors : sock'[f].id # c
                  /\ clients'[i].fd >= 0 => sock'[fd].wire = sock[fd].wire
          /\ (pc' = "write" /\ clients'[i'].fd \in read_set') => (pc = "read" /\ i = i')
       ]_vars

\* The read handler has just closed, for overflow, a connection whose fd
\* select() had reported readable and writable; the loop has gone on to a
\* later slot without calling the write handler on it.
ReadBeforeWriteWitness ==
    /\ pc \in {"read", "write"}
    /\ err = "Write buffer overflow"
    /\ \E f \in read_set \cap write_set : ~IsOpen(f) /\ f # server_fd

\* ------------------------------------------------------------ C18
\* C18: whenever the loop is about to call select(), the client fds that
\* accept() returned and the server has not closed are exactly the fds of
\* the occupied slots, no two occupied slots hold the same fd and none
\* holds the listener's; and an acceptor call whose accept() succeeded
\* returns with the new fd either held by exactly one slot or closed.
ExclusiveOwnership ==
    /\ [](pc = "select" =>
            /\ {f \in Descriptors : IsOpen(f)} = {clients[s].fd : s \in OccupiedSlots}
            /\ \A s, t \in OccupiedSlots : clients[s].fd = clients[t].fd => s = t
            /\ \A s \in OccupiedSlots : clients[s].fd # server_fd)
    /\ [][(pc = "accept" /\ nconn' = nconn + 1 /\ InLoop(pc')) =>
            LET fd == CHOOSE f \in FreeFds : TRUE
                holders == {s \in Slots : clients'[s].fd = fd}
            IN  \/ sock'[fd].id = nconn' /\ Cardinality(holders) = 1
                \/ sock'[fd] = NoConn /\ holders = {}
       ]_vars

\* About to call select(): the first connection is open in slot 0, and the
\* second, accepted on the next fd number, was closed again without being
\* installed (max_fd was not raised to its fd).
ExclusiveOwnershipWitness ==
    /\ pc = "select"
    /\ nconn = 2
    /\ Occupied(0)
    /\ sock[clients[0].fd].id = 1
    /\ max_fd = clients[0].fd
    /\ \A f \in Descriptors : IsOpen(f) <=> f = clients[0].fd

\* ------------------------------------------------------------ C19
\* C19: on every partly drained buffer the loop reaches (0 < offset < size)
\* an append of L bytes is accepted iff size + L <= MAX_PENDING_WRITES,
\* whatever the offset; and a read handler that receives L bytes on such a
\* buffer closes the connection for overflow iff size + L >
\* MAX_PENDING_WRITES, also where (size - offset) + L <= MAX_PENDING_WRITES.
NoReclamation ==
    /\ \A s \in Slots : \A L \in AppendLens :
          LET b == clients[s].write_buf
          IN  (0 < b.offset /\ b.offset < b.size) =>
                  (write_buffer_append(b, NextBytes(s, L), L).ok
                      <=> b.size + L <= MAX_PENDING_WRITES)
    /\ pc = "read" =>
          LET b == clients[i].write_buf
          IN  (0 < b.offset /\ b.offset < b.size) =>
                  \A L \in RecvLens :
                      LET S == handle_client_read(State, i, [n |-> L, errno |-> ""])
                      IN  /\ S.err = "Write buffer overflow" <=> b.size + L > MAX_PENDING_WRITES
                          /\ S.err = "Write buffer overflow" => S.clients[i].fd = 0 - 1

\* The read handler is about to receive on a connection whose buffer is
\* full to the last byte and half sent: one byte more closes it for
\* overflow although the unsent bytes and the new one fit the buffer.
NoReclamationWitness ==
    /\ pc = "read"
    /\ [n |-> 1, errno |-> ""] \in RecvOutcomes
    /\ LET b == clients[i].write_buf
           S == handle_client_read(State, i, [n |-> 1, errno |-> ""])
       IN  /\ 0 < b.offset
           /\ b.offset < b.size
           /\ Pending(b) + 1 <= MAX_PENDING_WRITES
           /\ S.err = "Write buffer overflow"
           /\ S.clients[i].fd = 0 - 1
           /\ S.sock[clients[i].fd] = NoConn

\* ------------------------------------------------------------ C20
\* C20: at every handler boundary a buffer with offset = size has size = 0;
\* so the capacity test of write_buffer_append, made on the size before the
\* reset, refuses an append only if the test on the size after the reset
\* would refuse it too.
DrainedIsReset ==
    \A s \in Slots :
        LET b == clients[s].write_buf
            size1 == IF b.offset >= b.size THEN 0 ELSE b.size
        IN  /\ b.offset = b.size => b.size = 0
            /\ \A L \in AppendLens :
                  ~write_buffer_append(b, NextBytes(s, L), L).ok
                      => size1 + L > MAX_PENDING_WRITES

\* A buffer filled to the last byte has been drained by one flush and reset:
\* the connection has been sent all it has received and has no write interest.
DrainedIsResetWitness ==
    \E s \in Slots :
        /\ Occupied(s)
        /\ sock[clients[s].fd].rcvd = MAX_PENDING_WRITES
        /\ WireLen(clients[s].fd) = MAX_PENDING_WRITES
        /\ clients[s].write_buf.size = 0
        /\ clients[s].write_buf.offset = 0
        /\ clients[s].fd \notin master_write_set
====
